---- MODULE Spec2Model ----
(***************************************************************************)
(* Movement command watchdog and motor-drive controller of zerobot        *)
(* (src/controller.py): the module globals movement / last_movement, the  *)
(* websocket connection handlers that parse "move:<ms>:<y>:<x>" text      *)
(* frames, and the periodic ticker that enforces the dead-man timeout.    *)
(*                                                                         *)
(* Python floats are modelled as reduced fractions <<n, d>> (d > 0), so   *)
(* that int(s) / 100 and perf_counter() + int(s) / 1000 are computed, not *)
(* assumed.  Text frames are sequences of one-character strings.          *)
(***************************************************************************)
EXTENDS Integers, Sequences, FiniteSets, TLC

\* ------------------------------------------------------------------ bounds
\* Granularity, in milliseconds, by which the monotonic clock is observed
\* to advance between two operations of the event loop.
StepMs == 250
\* Horizon of the clock, in milliseconds: no deadline is set beyond the last
\* clock reading within it.
MaxTimeMs == 750
\* Number of websocket connections the server accepts during a run.
MaxConns == 2

\* ------------------------------------------------------- float arithmetic
Abs(a) == IF a < 0 THEN -a ELSE a

\* Euclid's algorithm, as a function so that each step is computed once.
gcd[a \in Nat, b \in Nat] == IF b = 0 THEN a ELSE gcd[b, a % b]

GCD(a, b) == gcd[a, b]

\* a / b for integers a and b > 0 (Python true division), as a reduced fraction.
TrueDiv(a, b) ==
    LET g == GCD(Abs(a), b) IN <<a \div g, b \div g>>

\* An int used where a float is expected.
AsFloat(a) == <<a, 1>>

FloatAdd(p, q) == TrueDiv(p[1] * q[2] + q[1] * p[2], p[2] * q[2])
FloatLe(p, q) == p[1] * q[2] <= q[1] * p[2]
FloatLt(p, q) == p[1] * q[2] < q[1] * p[2]
\* FloatGe made strict.
FloatGeStrict(p, q) == FloatLt(q, p)

FloatGe(p, q) == FloatLe(q, p)

\* ------------------------------------------------------------ str methods
Digits == {"0", "1", "2", "3", "4", "5", "6", "7", "8", "9"}

DigitValue(c) ==
    CASE c = "0" -> 0 [] c = "1" -> 1 [] c = "2" -> 2 [] c = "3" -> 3
      [] c = "4" -> 4 [] c = "5" -> 5 [] c = "6" -> 6 [] c = "7" -> 7
      [] c = "8" -> 8 [] c = "9" -> 9

\* str.split(":"): the fields between the separators, empty fields included.
RECURSIVE SplitFrom(_, _, _)
SplitFrom(s, i, field) ==
    IF i > Len(s) THEN <<field>>
    ELSE IF s[i] = ":" THEN <<field>> \o SplitFrom(s, i + 1, <<>>)
    ELSE SplitFrom(s, i + 1, Append(field, s[i]))

Split(s) == SplitFrom(s, 1, <<>>)

\* str.strip() as int() applies it: leading and trailing blanks removed.
RECURSIVE LStrip(_)
LStrip(s) == IF s # <<>> /\ Head(s) = " " THEN LStrip(Tail(s)) ELSE s

RECURSIVE RStrip(_)
RStrip(s) ==
    IF s # <<>> /\ s[Len(s)] = " " THEN RStrip(SubSeq(s, 1, Len(s) - 1)) ELSE s

\* The value of a run of digits and single underscores, most significant first.
RECURSIVE DigitsValue(_, _)
DigitsValue(s, acc) ==
    IF s = <<>> THEN acc
    ELSE IF Head(s) = "_" THEN DigitsValue(Tail(s), acc)
    ELSE DigitsValue(Tail(s), 10 * acc + DigitValue(Head(s)))

\* Whether int() accepts the unsigned body: digits, with single underscores
\* only between digits.
ValidDigits(s) ==
    /\ s # <<>>
    /\ \A i \in 1..Len(s) : s[i] \in Digits \cup {"_"}
    /\ s[1] # "_"
    /\ s[Len(s)] # "_"
    /\ \A i \in 1..(Len(s) - 1) : ~(s[i] = "_" /\ s[i + 1] = "_")

\* int(s) for a str: raised is TRUE when Python raises ValueError, and value
\* is the integer otherwise.
ParseInt(s) ==
    LET t == RStrip(LStrip(s))
        signed == t # <<>> /\ Head(t) \in {"+", "-"}
        body == IF signed THEN Tail(t) ELSE t
    IN  IF ~ValidDigits(body) THEN [raised |-> TRUE, value |-> 0]
        ELSE IF signed /\ Head(t) = "-"
             THEN [raised |-> FALSE, value |-> -DigitsValue(body, 0)]
        ELSE [raised |-> FALSE, value |-> DigitsValue(body, 0)]

\* ------------------------------------------------------------------ inputs
\* str.join: the fields with ":" between them.
RECURSIVE Join(_)
Join(fields) ==
    IF Len(fields) = 1 THEN fields[1]
    ELSE fields[1] \o <<":">> \o Join(Tail(fields))

move == <<"m", "o", "v", "e">>
n0 == <<"0">>
n50 == <<"5", "0">>
n100 == <<"1", "0", "0">>
n101 == <<"1", "0", "1">>
n250 == <<"2", "5", "0">>
n500 == <<"5", "0", "0">>
Minus(s) == <<"-">> \o s

\* Text frames a client sends: well-formed moves (among them the boundary
\* percentages, a stop, a shorter, a zero and a negative duration) and frames
\* of every rejected shape.
ValidMoves ==
    { Join(<<move, n500, n50, n0>>),
      Join(<<move, n250, n50, n0>>),
      Join(<<move, n500, n100, Minus(n100)>>),
      Join(<<move, n500, Minus(n100), n100>>),
      Join(<<move, n500, n0, n0>>),
      Join(<<move, n0, n50, n0>>) }

NegativeMoves ==
    { Join(<<move, Minus(<<"5">>), n0, n0>>),
      Join(<<move, Minus(<<"9", "0", "0", "0">>), n0, n0>>) }

OutOfRangeMoves ==
    { Join(<<move, n500, n101, n0>>),
      Join(<<move, n500, Minus(n101), n0>>),
      Join(<<move, n500, n0, n101>>),
      Join(<<move, n500, n0, Minus(n101)>>) }

NonNumericMoves ==
    { Join(<<move, <<"a", "b", "c">>, n0, n0>>),
      Join(<<move, n500, n50, <<"1", ".", "5">>>>) }

MalformedFrames ==
    { Join(<<move, n500, n50>>),
      Join(<<move, n500, n50, n0, n0>>) }

UnknownFrames ==
    { Join(<<<<"s", "t", "o", "p">>>>),
      Join(<<<<"M", "o", "v", "e">>, n500, n50, n0>>) }

TextFrames ==
    ValidMoves \cup NegativeMoves \cup OutOfRangeMoves \cup NonNumericMoves
        \cup MalformedFrames \cup UnknownFrames

\* ------------------------------------------------------------------- state
VARIABLES
    movement,       \* the global movement: None or <<timeout, y, x>>
    last_movement,  \* the global last_movement: <<y, x>>
    now,            \* what time.perf_counter() returns, in seconds
    wake,           \* when the ticker's asyncio.sleep(0.25) completes
    ticker,         \* the process_movement_queue task: "sleeping" or "failed"
    conn,           \* each handle_connection coroutine: "idle", "open", "closed"
    motor,          \* the PWM duty cycles and the output pins
    driven,         \* the arguments of the latest update_motor_pins call, or None
    hist            \* the latest operation that ran handle_command or a tick

vars == <<movement, last_movement, now, wake, ticker, conn, motor, driven, hist>>

None == <<>>
Zero == <<AsFloat(0), AsFloat(0)>>
Conns == 1..MaxConns
Step == TrueDiv(StepMs, 1000)
MaxTime == TrueDiv(StepMs * (MaxTimeMs \div StepMs), 1000)
Sleep == TrueDiv(25, 100)

\* ---------------------------------------------------------- motor driver
UpdateMotorPins(m, y, x) ==
    IF FloatLt(AsFloat(0), y) THEN
        [M1 |-> 25, M2 |-> 25, p7 |-> FALSE, p11 |-> TRUE, p13 |-> TRUE, p15 |-> FALSE]
    ELSE IF FloatLt(y, AsFloat(0)) THEN
        [M1 |-> 30, M2 |-> 30, p7 |-> TRUE, p11 |-> FALSE, p13 |-> FALSE, p15 |-> TRUE]
    ELSE IF FloatLt(AsFloat(0), x) THEN
        [M1 |-> 20, M2 |-> 20, p7 |-> TRUE, p11 |-> FALSE, p13 |-> TRUE, p15 |-> FALSE]
    ELSE IF FloatLt(x, AsFloat(0)) THEN
        [M1 |-> 20, M2 |-> 20, p7 |-> FALSE, p11 |-> TRUE, p13 |-> FALSE, p15 |-> TRUE]
    ELSE
        [m EXCEPT !.p7 = FALSE, !.p11 = FALSE, !.p13 = FALSE, !.p15 = FALSE]

\* ------------------------------------------------------------- evaluation
\* EffectivePair without the fail-safe: the stored pair even past the deadline.
EffectivePairNeverZero(mv, t) == <<mv[2], mv[3]>>

\* The pair evaluate_movement acts on: the stored one, or (0, 0) once the
\* deadline is reached.
EffectivePair(mv, t) ==
    IF FloatGe(t, mv[1]) THEN Zero ELSE <<mv[2], mv[3]>>

\* PairChanged without the comparison: every evaluation drives the motor.
PairChangedAlways(lm, pair) == TRUE

\* PairChanged without the branch that stops the motor.
PairChangedOnlyWhenMoving(lm, pair) == lm # pair /\ pair # Zero

\* Whether evaluate_movement calls update_motor_pins for the pair.
PairChanged(lm, pair) == lm # pair

\* Consumed without the clearing of an expired request.
ConsumedKeepsRequest(mv, timed_out) == mv

\* Consumed that clears the request after every evaluation.
ConsumedAlways(mv, timed_out) == None

\* The global movement once evaluate_movement is done with mv.
Consumed(mv, timed_out) == IF timed_out THEN None ELSE mv

\* WhenAbsent that takes the absence of a request for a request to stop.
WhenAbsentStops(lm, m) ==
    [movement |-> None, last_movement |-> Zero,
     motor |-> UpdateMotorPins(m, AsFloat(0), AsFloat(0)), calls |-> <<Zero>>,
     timed_out |-> FALSE, printed |-> "Stopped!", outcome |-> "absent"]

\* What evaluate_movement does when movement is None: it returns at once.
WhenAbsent(lm, m) ==
    [movement |-> None, last_movement |-> lm, motor |-> m, calls |-> <<>>,
     timed_out |-> FALSE, printed |-> "", outcome |-> "absent"]

\* evaluate_movement() with the globals (mv, lm), the motor m and the clock
\* reading t; driverOk is FALSE when update_motor_pins raises.
EvaluateMovement(mv, lm, m, t, driverOk) ==
    IF mv = None THEN WhenAbsent(lm, m)
    ELSE
        LET timed_out == FloatGe(t, mv[1])
            pair == EffectivePair(mv, t)
            moving == pair[1] # AsFloat(0) \/ pair[2] # AsFloat(0)
            call == PairChanged(lm, pair)
            printed == IF ~call THEN "" ELSE IF moving THEN "Moving" ELSE "Stopped!"
        IN  IF call /\ ~driverOk THEN
                [movement |-> mv, last_movement |-> lm, motor |-> m,
                 calls |-> <<pair>>, timed_out |-> timed_out, printed |-> printed,
                 outcome |-> "DriverError"]
            ELSE
                [movement |-> Consumed(mv, timed_out),
                 last_movement |-> pair,
                 motor |-> IF call THEN UpdateMotorPins(m, pair[1], pair[2]) ELSE m,
                 calls |-> IF call THEN <<pair>> ELSE <<>>,
                 timed_out |-> timed_out, printed |-> printed,
                 outcome |-> "evaluated"]

\* SetMovementAsserts without the range checks of the strengths.
SetMovementAssertsNoRange(timeout, y, x) == FloatGe(timeout, AsFloat(0))

\* SetMovementAsserts with the range checks made strict.
SetMovementAssertsStrict(timeout, y, x) ==
    /\ FloatGe(timeout, AsFloat(0))
    /\ FloatLt(AsFloat(-1), y) /\ FloatLt(y, AsFloat(1))
    /\ FloatLt(AsFloat(-1), x) /\ FloatLt(x, AsFloat(1))

\* The three assertions of set_movement.
SetMovementAsserts(timeout, y, x) ==
    /\ FloatGe(timeout, AsFloat(0))
    /\ FloatLe(AsFloat(-1), y) /\ FloatLe(y, AsFloat(1))
    /\ FloatLe(AsFloat(-1), x) /\ FloatLe(x, AsFloat(1))

\* Install that keeps a request already pending.
InstallIfAbsent(mv, request) == IF mv = None THEN request ELSE mv

\* The global movement once set_movement has assigned it.
Install(mv, request) == request

\* set_movement(timeout, y, x); t is the clock reading of its evaluation.
SetMovement(mv, lm, m, timeout, y, x, t, driverOk) ==
    IF ~SetMovementAsserts(timeout, y, x) THEN
        [movement |-> mv, last_movement |-> lm, motor |-> m, calls |-> <<>>,
         timed_out |-> FALSE, printed |-> "", outcome |-> "AssertionError"]
    ELSE EvaluateMovement(Install(mv, <<timeout, y, x>>), lm, m, t, driverOk)

\* Whether the match statement takes the case ["move", duration, y, x].
IsMoveShape(fields) == Len(fields) = 4 /\ fields[1] = move

\* timeout = time.perf_counter() + int(duration) / 1000
Deadline(t, duration) == FloatAdd(t, TrueDiv(duration, 1000))

\* Strength without the division.
StrengthUnscaled(pct) == AsFloat(pct)

\* int(y) / 100
Strength(pct) == TrueDiv(pct, 100)

\* What handle_command reads off the text: whether it has the shape of a
\* move, whether an int() raises, and the three integers.
Decode(command) ==
    LET fields == Split(command)
    IN  IF ~IsMoveShape(fields)
        THEN [shape |-> FALSE, raised |-> FALSE, duration |-> 0, y |-> 0, x |-> 0]
        ELSE
            LET duration == ParseInt(fields[2])
                y == ParseInt(fields[3])
                x == ParseInt(fields[4])
            IN  [shape |-> TRUE,
                 raised |-> duration.raised \/ y.raised \/ x.raised,
                 duration |-> duration.value, y |-> y.value, x |-> x.value]

\* Decode, tabulated over the frames the clients send.
Decoded == [command \in TextFrames |-> Decode(command)]

\* handle_command(command); t1 is the clock reading of handle_command and
\* t2 >= t1 the one of the evaluation that follows.
HandleCommand(command, mv, lm, m, t1, t2, driverOk) ==
    LET d == Decoded[command]
        Rejected(why, text) ==
            [movement |-> mv, last_movement |-> lm, motor |-> m, calls |-> <<>>,
             timed_out |-> FALSE, printed |-> text, outcome |-> why]
    IN  IF ~d.shape THEN Rejected("unknown", "Unknown command:")
        ELSE IF d.raised THEN Rejected("ValueError", "")
        ELSE SetMovement(mv, lm, m, Deadline(t1, d.duration),
                         Strength(d.y), Strength(d.x), t2, driverOk)

\* Whether the outcome is an exception leaving the coroutine that ran it.
Raises(outcome) == outcome \in {"ValueError", "AssertionError", "DriverError"}

\* ----------------------------------------------------------------- actions
\* A record of one operation: what ran, on what, what it did, and what the
\* operation before it was.
\* In one word, what the operation o was: "accepted" for a command whose
\* request was installed and evaluated before its deadline, "expired" for an
\* evaluation that reached a deadline, else its kind.
Label(o) ==
    IF o.timed_out THEN "expired"
    ELSE IF o.op = "command" /\ o.outcome = "evaluated" THEN "accepted"
    ELSE o.op

\* Whether a request is pending whose deadline the clock reading t has reached.
Stale(mv, t) == mv # None /\ FloatGe(t, mv[1])

\* The operation kind run for the frame command (none for a tick) with the
\* result r; c is the connection of a command whose request was installed and
\* 0 otherwise, and stale whether the operation began with a stale request.
Op(kind, c, command, stale, r) ==
    [op |-> kind, command |-> command, outcome |-> r.outcome,
     timed_out |-> r.timed_out, calls |-> r.calls, prev |-> Label(hist),
     sender |-> c, switched |-> c # 0 /\ hist.sender # 0 /\ hist.sender # c,
     stale |-> stale]

Boot ==
    [op |-> "boot", command |-> <<>>, outcome |-> "",
     timed_out |-> FALSE, calls |-> <<>>, prev |-> "boot",
     sender |-> 0, switched |-> FALSE, stale |-> FALSE]

\* The GPIO state init_gpio sets up, and the one its finally clause leaves.
MotorOff ==
    [M1 |-> 0, M2 |-> 0, p7 |-> FALSE, p11 |-> FALSE, p13 |-> FALSE, p15 |-> FALSE]

Init ==
    /\ movement = None
    /\ last_movement = Zero
    /\ now = Step
    /\ wake = FloatAdd(Step, Sleep)
    /\ ticker = "sleeping"
    /\ conn = [c \in Conns |-> "idle"]
    /\ motor = MotorOff
    /\ driven = None
    /\ hist = Boot

\* serve() accepts a connection and starts handle_connection for it.
Connect(c) ==
    /\ ticker = "sleeping"
    /\ conn[c] = "idle"
    /\ conn' = [conn EXCEPT ![c] = "open"]
    /\ UNCHANGED <<movement, last_movement, now, wake, ticker, motor, driven, hist>>

\* The peer closes or drops the connection: the async for ends.
Disconnect(c) ==
    /\ conn[c] = "open"
    /\ conn' = [conn EXCEPT ![c] = "closed"]
    /\ UNCHANGED <<movement, last_movement, now, wake, ticker, motor, driven, hist>>

\* A frame that is not a str: handle_connection skips it.
ReceiveBinary(c) ==
    /\ conn[c] = "open"
    /\ UNCHANGED vars

\* What the globals, the motor and the history become once the operation o
\* with the result r has run.
Apply(o, r) ==
    /\ movement' = r.movement
    /\ last_movement' = r.last_movement
    /\ motor' = r.motor
    /\ driven' = IF r.calls # <<>> THEN r.calls[1] ELSE driven
    /\ hist' = o

\* A text frame arrives on connection c and handle_command runs on it, the
\* clock reading t2 of its evaluation being that of handle_command or later.
\* An exception leaves handle_connection, which ends the coroutine.
Receive(c, command, driverOk) ==
    /\ ticker = "sleeping"
    /\ conn[c] = "open"
    /\ \E t2 \in {now, FloatAdd(now, Step)} :
        \E r \in {HandleCommand(command, movement, last_movement, motor, now, t2,
                                driverOk)} :
            /\ FloatLe(t2, MaxTime)
            /\ r.movement # None => FloatLe(r.movement[1], MaxTime)
            /\ ~driverOk => r.outcome = "DriverError"
            /\ now' = t2
            /\ Apply(Op("command", IF r.outcome = "evaluated" THEN c ELSE 0, command,
                     Stale(movement, now), r), r)
            /\ conn' = IF Raises(r.outcome) THEN [conn EXCEPT ![c] = "closed"] ELSE conn
    /\ UNCHANGED <<wake, ticker>>

ReceiveText(c, command) == Receive(c, command, TRUE)

\* The ticker's sleep is over: evaluate_movement runs and the loop sleeps
\* again.  An exception leaves process_movement_queue: the task group then
\* cancels the server and init_gpio's finally clause releases the motor.
TickWith(driverOk) ==
    /\ ticker = "sleeping"
    /\ FloatGe(now, wake)
    /\ UNCHANGED now
    /\ \E r \in {EvaluateMovement(movement, last_movement, motor, now, driverOk)} :
           /\ ~driverOk => r.outcome = "DriverError"
           /\ wake' = IF Raises(r.outcome) THEN wake ELSE FloatAdd(now, Sleep)
           /\ ticker' = IF Raises(r.outcome) THEN "failed" ELSE "sleeping"
           /\ conn' = IF Raises(r.outcome) THEN [c \in Conns |-> "closed"] ELSE conn
           /\ Apply(Op("tick", 0, <<>>, Stale(movement, now), r),
                    IF Raises(r.outcome) THEN [r EXCEPT !.motor = MotorOff] ELSE r)

Tick == TickWith(TRUE)

\* Time passes.
Advance ==
    /\ ticker = "sleeping"
    /\ FloatLe(FloatAdd(now, Step), MaxTime)
    /\ now' = FloatAdd(now, Step)
    /\ UNCHANGED <<movement, last_movement, wake, ticker, conn, motor, driven, hist>>

\* An update_motor_pins call raises, in a connection handler or in the ticker.
ReceiveDriverError(c, command) == Receive(c, command, FALSE)
TickDriverError == TickWith(FALSE)

Next ==
    \/ \E c \in Conns : Connect(c)
    \/ \E c \in Conns : Disconnect(c)
    \/ \E c \in Conns : ReceiveBinary(c)
    \/ \E c \in Conns, command \in TextFrames : ReceiveText(c, command)
    \/ Tick
    \/ Advance

\* The program with a motor driver that never raises.
Spec == Init /\ [][Next]_vars

\* The ticker task is scheduled whenever its sleep is over, and the clock
\* does not stop.
LiveSpec == Spec /\ WF_vars(Tick) /\ WF_vars(Advance)

NextFault ==
    \/ Next
    \/ \E c \in Conns, command \in TextFrames : ReceiveDriverError(c, command)
    \/ TickDriverError

\* The program with a motor driver whose calls may raise.
FaultSpec == Init /\ [][NextFault]_vars

\* ------------------------------------------------------------------ claims
\* What the claims say of a frame: the pair it asks for, and whether it is
\* a valid instruction move:<d>:<f>:<l>, d >= 0, f and l in -100..100.
PairOf(command) ==
    <<TrueDiv(Decoded[command].y, 100), TrueDiv(Decoded[command].x, 100)>>

IsValid(command) ==
    LET d == Decoded[command]
    IN  /\ d.shape /\ ~d.raised /\ d.duration >= 0
        /\ d.y \in -100..100 /\ d.x \in -100..100

\* The step handles the text frame, on some connection.
Handles(command) ==
    /\ hist'.op = "command"
    /\ hist'.command = command
    /\ \E c \in Conns : ReceiveText(c, command)

\* No command can arrive any more: every connection is closed.
NoMoreCommands == \A c \in Conns : conn[c] = "closed"

\* The robot is stopped and nothing is pending.
Stopped ==
    /\ movement = None
    /\ last_movement = Zero
    /\ driven \in {None, Zero}

\* C1 - dead-man stop: once no further command can arrive, with the ticker
\* firing and time advancing, the pending request eventually is absent, the
\* applied movement (0, 0) and the latest motor call, if any, drive(0, 0).
C1_DeadManStop == NoMoreCommands ~> Stopped

\* The ticker has stopped a moving robot whose connections are all gone.
C1_Witness ==
    /\ NoMoreCommands
    /\ hist.op = "tick" /\ hist.timed_out /\ hist.calls = <<Zero>>
    /\ Stopped

\* C2 - expiry determinism: a tick that finds the pending request expired
\* sets the applied movement to (0, 0) and clears the request, calling
\* drive(0, 0) once if the robot was moving and not at all otherwise; a tick
\* that finds no request changes nothing and makes no call.
C2_ExpiryDeterminism ==
    [][ /\ (Tick /\ movement # None /\ FloatGe(now, movement[1])) =>
            /\ movement' = None
            /\ last_movement' = Zero
            /\ hist'.calls = IF last_movement # Zero THEN <<Zero>> ELSE <<>>
        /\ (Tick /\ movement = None) =>
            /\ UNCHANGED <<movement, last_movement, motor, driven>>
            /\ hist'.calls = <<>>
      ]_vars

\* A tick has consumed an expired request of a moving robot.
C2_Witness ==
    /\ hist.op = "tick" /\ hist.timed_out /\ hist.calls = <<Zero>>
    /\ movement = None /\ last_movement = Zero
    /\ hist.prev = "tick"

\* An operation that evaluates: a tick, or a text frame being handled.
Evaluates == Tick \/ \E command \in TextFrames : Handles(command)

\* C3 - debounce: an evaluation calls the motor driver only with a pair that
\* differs from the applied movement; a tick that follows an evaluation with
\* no expiry at either makes no call; and a command identical to the
\* unexpired one accepted just before it makes no call.
C3_Debounce ==
    [][ /\ (Evaluates /\ hist'.calls # <<>>) => hist'.calls[1] # last_movement
        /\ (Tick /\ hist.outcome = "evaluated" /\ ~hist.timed_out
                 /\ ~hist'.timed_out) => hist'.calls = <<>>
        /\ \A command \in TextFrames :
             (Handles(command) /\ Label(hist) = "accepted"
                 /\ hist.command = command /\ Label(hist') = "accepted")
             => hist'.calls = <<>> /\ Len(hist.calls) <= 1
      ]_vars

\* The second of two identical unexpired commands has made no motor call.
C3_Witness ==
    /\ hist.op = "command" /\ Label(hist) = "accepted" /\ hist.prev = "accepted"
    /\ hist.calls = <<>>
    /\ last_movement = PairOf(hist.command) /\ last_movement # Zero

\* C4 - a valid instruction evaluated before its deadline leaves the applied
\* movement equal to (f/100, l/100), whatever the globals were.
C4_ValidMoveApplied ==
    [][ \A command \in TextFrames :
          (/\ Handles(command)
           /\ IsValid(command)
           /\ FloatLt(now', FloatAdd(now, TrueDiv(Decoded[command].duration, 1000))))
          => last_movement' = PairOf(command)
      ]_vars

\* A valid move has replaced another pending, applied one.
C4_Witness ==
    /\ hist.op = "command" /\ Label(hist) = "accepted" /\ hist.prev = "accepted"
    /\ hist.calls = <<last_movement>>
    /\ last_movement = <<AsFloat(-1), AsFloat(1)>>
    /\ movement # None

\* A then B: the frame B is handled right after the command A was accepted,
\* A still unexpired, B valid with another pair and evaluated before its
\* own deadline.
Succeeds(B) ==
    /\ Handles(B)
    /\ Label(hist) = "accepted"
    /\ FloatLt(now, movement[1])
    /\ IsValid(B)
    /\ Label(hist') = "accepted"
    /\ PairOf(hist.command) # PairOf(B)

C6_NegativeDurationRejected ==
    [][ \A command \in TextFrames :
          (/\ Handles(command)
           /\ Decoded[command].shape /\ ~Decoded[command].raised
           /\ Decoded[command].duration < 0)
          => /\ UNCHANGED <<movement, last_movement, motor, driven>>
             /\ hist'.calls = <<>>
      ]_vars

\* The frames the claims call rejected, by their shape.
RejectedFrames ==
    NonNumericMoves \cup OutOfRangeMoves \cup MalformedFrames \cup UnknownFrames

\* C7 as stated - a rejected instruction neither crashes the connection
\* handler nor closes the connection: the connection that received it is
\* still open, so that its later messages reach handle_command.
C7_RejectionKeepsConnection ==
    [][ \A c \in Conns, command \in RejectedFrames :
          (/\ hist'.op = "command" /\ hist'.command = command
           /\ ReceiveText(c, command))
          => conn'[c] = "open"
      ]_vars

\* C8 - handling a frame with a non-numeric field, a percentage outside
\* -100..100, a wrong number of fields or another directive name leaves the
\* pending request, the applied movement and the motor as they were and
\* makes no motor call.
C8_RejectionChangesNothing ==
    [][ \A command \in RejectedFrames :
          Handles(command)
          => /\ UNCHANGED <<movement, last_movement, motor, driven>>
             /\ hist'.calls = <<>>
             /\ hist'.outcome \in {"unknown", "ValueError", "AssertionError"}
      ]_vars

\* A move with a valid and an out-of-range strength was handled while
\* another request was pending and applied, and nothing of it is installed.
C8_Witness ==
    /\ hist.op = "command" /\ hist.outcome = "AssertionError"
    /\ hist.command = Join(<<move, n500, n0, n101>>)
    /\ movement # None
    /\ last_movement = <<AsFloat(1), AsFloat(-1)>>
    /\ driven = last_movement

Boundary == {-100, 0, 100}

\* C9 - a move with d >= 0 whose percentages are both in -100..100 is
\* accepted, a percentage of -100, 0 or 100 becoming the strength -1, 0 or
\* 1; a move with a percentage of 101 or -101 raises the assertion and
\* installs nothing.
C9_StrengthBoundary ==
    [][ \A command \in TextFrames :
          LET d == Decoded[command]
          IN  (Handles(command) /\ d.shape /\ ~d.raised /\ d.duration >= 0) =>
                /\ (d.y \in -100..100 /\ d.x \in -100..100) =>
                     /\ hist'.outcome = "evaluated"
                     /\ ~hist'.timed_out =>
                          /\ movement' # None
                          /\ d.y \in Boundary => movement'[2] = AsFloat(d.y \div 100)
                          /\ d.x \in Boundary => movement'[3] = AsFloat(d.x \div 100)
                          /\ last_movement' = <<movement'[2], movement'[3]>>
                /\ (d.y \in {101, -101} \/ d.x \in {101, -101}) =>
                     /\ hist'.outcome = "AssertionError"
                     /\ UNCHANGED <<movement, last_movement, motor, driven>>
      ]_vars

\* The move with the percentages -100 and 100 is pending with the strengths
\* -1 and 1.
C9_Witness ==
    /\ hist.op = "command" /\ hist.outcome = "evaluated"
    /\ hist.command = Join(<<move, n500, Minus(n100), n100>>)
    /\ movement # None /\ movement[2] = AsFloat(-1) /\ movement[3] = AsFloat(1)

\* C10 as stated - a motor call that raises during an evaluation is not
\* fatal to the evaluator: the ticker keeps ticking afterwards.
C10_TickerSurvivesDriverError ==
    hist.outcome = "DriverError" => ticker = "sleeping"

\* The request the valid frame asks for when handle_command reads the clock
\* at t.
RequestOf(command, t) ==
    <<FloatAdd(t, TrueDiv(Decoded[command].duration, 1000)),
      PairOf(command)[1], PairOf(command)[2]>>

\* C11 - one command slot for all the connections: once a valid command from
\* any connection has been handled before its deadline, the pending request
\* and the applied movement are that command's, whichever connection sent
\* the command before it and whatever was pending.
C11_SharedSlotRecency ==
    [][ \A c \in Conns, command \in TextFrames :
          (/\ hist'.op = "command" /\ hist'.command = command
           /\ IsValid(command)
           /\ FloatLt(now', RequestOf(command, now)[1])
           /\ ReceiveText(c, command))
          => /\ movement' = RequestOf(command, now)
             /\ last_movement' = PairOf(command)
             /\ hist'.sender = c
      ]_vars

\* A command of one connection has replaced the command another connection
\* sent just before it.
C11_Witness ==
    /\ Label(hist) = "accepted" /\ hist.prev = "accepted" /\ hist.switched
    /\ hist.calls = <<PairOf(hist.command)>>
    /\ movement # None /\ <<movement[2], movement[3]>> = PairOf(hist.command)
    /\ last_movement = PairOf(hist.command)
    /\ \A c \in Conns : conn[c] = "open"

\* C12 - a request is cleared only by an evaluation that finds that very
\* request expired: a tick clears the pending request only at or after its
\* deadline, and a command clears only its own request, only when its
\* evaluation reads the clock at or after its own deadline; a command
\* evaluated before its deadline stays pending even when the request it
\* replaces was stale.
C12_NoLostCommand ==
    [][ /\ (Tick /\ movement # None /\ movement' # movement)
            => movement' = None /\ FloatGe(now, movement[1])
        /\ \A command \in TextFrames :
             (Handles(command) /\ hist'.outcome = "evaluated") =>
                /\ movement' \in {None, RequestOf(command, now)}
                /\ movement' = None <=> FloatGe(now', RequestOf(command, now)[1])
        /\ movement' \in {None, movement} \/ \E command \in TextFrames : Handles(command)
      ]_vars

\* A fresh command was installed over a stale request and is still pending
\* and applied.
C12_Witness ==
    /\ Label(hist) = "accepted" /\ hist.stale
    /\ movement # None /\ FloatLt(now, movement[1])
    /\ last_movement = <<movement[2], movement[3]>>
    /\ last_movement # Zero

\* C13 - last_movement is the pair of the latest update_motor_pins call, or
\* (0, 0) when there was none, and changes only in an operation that ran
\* evaluate_movement to its end, making that call.
C13_AppliedIsLastDriven ==
    /\ [](last_movement = IF driven = None THEN Zero ELSE driven)
    /\ [][ last_movement' # last_movement =>
             /\ Evaluates
             /\ hist'.outcome = "evaluated"
             /\ hist'.calls = <<last_movement'>>
         ]_vars

\* The robot moves as the latest motor call said, a rejected frame having
\* been parsed since.
C13_Witness ==
    /\ driven # None /\ driven # Zero /\ last_movement = driven
    /\ hist.op = "command" /\ hist.outcome \in {"ValueError", "unknown"}

\* C14 - a tick that finds no pending request makes no motor call and leaves
\* the request absent and the applied movement, the motor and the latest
\* call as they were.
C14_AbsentIsNoOp ==
    [][ (Tick /\ movement = None) =>
          /\ hist'.outcome = "absent"
          /\ hist'.calls = <<>>
          /\ movement' = None
          /\ UNCHANGED <<last_movement, motor, driven>>
      ]_vars

\* A tick found no request, the robot having moved and been stopped before.
C14_Witness ==
    /\ hist.op = "tick" /\ hist.outcome = "absent"
    /\ movement = None /\ driven = Zero /\ motor.M1 # 0

\* C15 - between operations, the applied movement is (0, 0) whenever no
\* request is pending.
C15_MotionImpliesRequest == movement = None => last_movement = Zero

\* An expired request of a moving robot has just been consumed.
C15_Witness ==
    /\ movement = None /\ last_movement = Zero
    /\ hist.timed_out /\ hist.calls = <<Zero>> /\ hist.op = "command"

\* The frame renews the pending request: it is valid, asks for the non-zero
\* pair that is pending, and is handled before the pending deadline.
Renews(command) ==
    /\ Handles(command)
    /\ IsValid(command)
    /\ PairOf(command) # Zero
    /\ movement # None
    /\ <<movement[2], movement[3]>> = PairOf(command)
    /\ FloatLt(now, movement[1])

\* C16 as stated - a renewal makes no motor call, (0, 0) least of all, and
\* replaces the deadline by its own; a tick before the deadline makes no
\* call either.
C16_RenewalNeverStops ==
    [][ /\ \A command \in TextFrames :
             Renews(command) =>
                /\ hist'.calls = <<>>
                /\ movement' = RequestOf(command, now)
        /\ (Tick /\ movement # None /\ FloatLt(now, movement[1])) =>
                hist'.calls = <<>> /\ movement' = movement
      ]_vars

\* C16 amended - the same, for the renewals that are evaluated before their
\* own deadline.
C16_RenewalWithoutGlitch ==
    [][ /\ \A command \in TextFrames :
             (Renews(command) /\ FloatLt(now', RequestOf(command, now)[1])) =>
                /\ hist'.calls = <<>>
                /\ movement' = RequestOf(command, now)
                /\ last_movement' = last_movement
                /\ last_movement = PairOf(command)
        /\ (Tick /\ movement # None /\ FloatLt(now, movement[1])) =>
                hist'.calls = <<>> /\ movement' = movement
      ]_vars

\* A renewal that followed a tick has made no motor call and set a later
\* deadline.
C16_Witness ==
    /\ Label(hist) = "accepted" /\ hist.prev = "tick" /\ ~hist.stale
    /\ hist.calls = <<>>
    /\ last_movement = PairOf(hist.command) /\ last_movement # Zero
    /\ movement = RequestOf(hist.command, now)

\* C17 - a valid command of duration 0 is expired at its own evaluation: the
\* motor is called with (0, 0) if the robot was moving and not at all
\* otherwise, never with the command's pair; the applied movement is (0, 0)
\* and no request is pending afterwards, the one pending before included.
C17_ZeroDurationStops ==
    [][ \A command \in TextFrames :
          (Handles(command) /\ IsValid(command) /\ Decoded[command].duration = 0)
          => /\ hist'.timed_out
             /\ hist'.calls = IF last_movement # Zero THEN <<Zero>> ELSE <<>>
             /\ last_movement' = Zero
             /\ movement' = None
      ]_vars

\* A command of duration 0 and a non-zero pair has stopped the robot and
\* discarded the unexpired request accepted just before it.
C17_Witness ==
    /\ hist.op = "command" /\ hist.command = Join(<<move, n0, n50, n0>>)
    /\ hist.timed_out /\ hist.calls = <<Zero>> /\ hist.prev = "accepted"
    /\ ~hist.stale
    /\ movement = None /\ last_movement = Zero

====
